---- MODULE Spec2Model ----
(***************************************************************************)
(* Model of the cleaning + feature-engineering core of the e-commerce      *)
(* analysis repository: src/src/data_cleaning.py and                       *)
(* src/src/feature_engineering.py.                                         *)
(*                                                                         *)
(* A table (pandas DataFrame) is a sequence of rows; a row is a record     *)
(* with one field per column.  Prices are held in hundredths (2.55 is 255).*)
(* A missing value (NaN / None) of a text column is the marker NaN.        *)
(* An InvoiceDate cell is either text (as read from a CSV file) or a       *)
(* timestamp (after pd.to_datetime): [text |-> s, ts |-> n], where a text  *)
(* cell has ts = 0 and a timestamp cell has text = "" and ts = the hours    *)
(* elapsed since 2010-11-30 00:00, so that 2010-12-01 00:00 is 24.         *)
(* An invoice id is a sequence of characters, so that the prefix test of   *)
(* remove_cancelled_orders is modelled on the text of the id.              *)
(***************************************************************************)
EXTENDS Integers, Sequences, FiniteSets, TLC

VARIABLES
    df,                \* the table the caller passes to clean_ecommerce_data
    df_clean,          \* clean_ecommerce_data's working table
    pc,                \* position in the function being executed
    calls,             \* the cleaning steps run so far: step, input, output
    run,               \* 1: first call of clean_ecommerce_data, 2: call on its result
    first_clean,       \* the table returned by the first call
    customer_metrics,  \* the customer table: metrics, then scores, then segments
    product_metrics,   \* create_product_metrics' table
    monthly_revenue,   \* create_monthly_revenue's table
    country_metrics,   \* create_country_metrics' table
    invoice_metrics,   \* create_invoice_metrics' table
    result,            \* the tuple engineer_all_features returns
    call,              \* the operation called directly, with its arguments
    error              \* the exception raised, if any

vars == <<df, df_clean, pc, calls, run, first_clean, customer_metrics,
          product_metrics, monthly_revenue, country_metrics, invoice_metrics,
          result, call, error>>

\* the variables clean_ecommerce_data and create_rfm_scores do not touch
featureVars == <<product_metrics, monthly_revenue, country_metrics, invoice_metrics, result>>

callVars == <<call, error>>

(***************************************************************************)
(* Bounds                                                                  *)
(***************************************************************************)
MaxRows == 3

MaxCustomers == 6

MaxScoredCustomers == 2

MaxLines == 3

MaxCountryLines == 5

MaxOpRows == 2

(***************************************************************************)
(* Values and rows                                                         *)
(***************************************************************************)
NaN == "NaN"

Text(s) == [text |-> s, ts |-> 0]

Stamp(n) == [text |-> "", ts |-> n]

\* default arguments of the cleaning functions
cancelled_prefix == <<"C">>

min_quantity == 1

min_price == 1

max_price == 10000000

BaseRow ==
    [InvoiceNo |-> <<"5", "3", "6">>, StockCode |-> "85123A",
     Description |-> "LANTERN", Quantity |-> 6, InvoiceDate |-> Stamp(24),
     UnitPrice |-> 255, CustomerID |-> "17850", Country |-> "United Kingdom"]

CancelledId == <<"C", "5", "3", "6">>

\* the rows an input table is drawn from: a valid row, the valid boundary
\* row, one row per cleaning rule, and rows that break several rules
RawRows ==
    { BaseRow,
      [BaseRow EXCEPT !.Quantity = min_quantity, !.UnitPrice = min_price],
      [BaseRow EXCEPT !.InvoiceNo = CancelledId],
      [BaseRow EXCEPT !.InvoiceNo = CancelledId, !.Quantity = -1],
      [BaseRow EXCEPT !.Description = NaN],
      [BaseRow EXCEPT !.Description = NaN, !.Quantity = 0, !.UnitPrice = 0],
      [BaseRow EXCEPT !.Quantity = 0],
      [BaseRow EXCEPT !.UnitPrice = -150],
      [BaseRow EXCEPT !.UnitPrice = max_price + 1],
      [BaseRow EXCEPT !.CustomerID = NaN],
      [BaseRow EXCEPT !.InvoiceDate = Text("2010-12-01")],
      [BaseRow EXCEPT !.InvoiceDate = Text("not a date")] }

RECURSIVE TablesOf(_, _)
TablesOf(rows, n) ==
    IF n = 0 THEN {<<>>}
    ELSE LET shorter == TablesOf(rows, n - 1)
         IN  shorter \cup {Append(t, r) : t \in {s \in shorter : Len(s) = n - 1}, r \in rows}

RawTables == TablesOf(RawRows, MaxRows)

(***************************************************************************)
(* pandas helpers                                                          *)
(***************************************************************************)
\* df[mask]: the rows whose mask entry is true, in their original order
RECURSIVE BoolIndexFrom(_, _, _)
BoolIndexFrom(t, mask, i) ==
    IF i > Len(t) THEN <<>>
    ELSE (IF mask[i] THEN <<t[i]>> ELSE <<>>) \o BoolIndexFrom(t, mask, i + 1)

BoolIndex(t, mask) == BoolIndexFrom(t, mask, 1)

\* Series.astype(str) of an invoice id: a missing id becomes the text "nan"
astype_str(v) == IF v = <<NaN>> THEN <<"n", "a", "n">> ELSE v

\* the prefix found anywhere in the text
startswith_anywhere(s, prefix) ==
    \E k \in 0..(Len(s) - Len(prefix)) : SubSeq(s, k + 1, k + Len(prefix)) = prefix

\* str.startswith
startswith(s, prefix) ==
    /\ Len(s) >= Len(prefix)
    /\ SubSeq(s, 1, Len(prefix)) = prefix

\* pd.to_datetime of one cell: the texts it parses, and their timestamps
ParsedDates == [x \in {"2010-12-01", "2010-12-02", "2011-03-01"} |->
                   CASE x = "2010-12-01" -> 24
                     [] x = "2010-12-02" -> 48
                     [] x = "2011-03-01" -> 2184]

Parseable(cell) == cell.ts # 0 \/ cell.text \in DOMAIN ParsedDates

to_datetime(cell) == IF cell.ts # 0 THEN cell ELSE Stamp(ParsedDates[cell.text])

\* the row with one more column
WithColumn(r, c, v) == [f \in DOMAIN r \cup {c} |-> IF f = c THEN v ELSE r[f]]

(***************************************************************************)
(* The cleaning functions                                                  *)
(***************************************************************************)
remove_cancelled_orders(t, prefix) ==
    LET cancelled_mask == [i \in 1..Len(t) |->
                              startswith(astype_str(t[i].InvoiceNo), prefix)]
    IN  BoolIndex(t, [i \in 1..Len(t) |-> ~cancelled_mask[i]])

\* the converted column merged back on InvoiceNo, a key that is not unique:
\* every row comes back once per row that shares its invoice id
RECURSIVE MergeOnInvoiceFrom(_, _)
MergeOnInvoiceFrom(t, i) ==
    IF i > Len(t) THEN <<>>
    ELSE BoolIndex(t, [j \in 1..Len(t) |-> t[j].InvoiceNo = t[i].InvoiceNo])
            \o MergeOnInvoiceFrom(t, i + 1)

convert_data_types_merge(t) ==
    MergeOnInvoiceFrom(
        IF \A i \in 1..Len(t) : Parseable(t[i].InvoiceDate)
        THEN [i \in 1..Len(t) |-> [t[i] EXCEPT !.InvoiceDate = to_datetime(@)]]
        ELSE t, 1)

\* the only mapping clean_ecommerce_data passes is InvoiceDate -> datetime64;
\* a failed conversion is caught and logged, and the column is left as it was
convert_data_types(t) ==
    IF \A i \in 1..Len(t) : Parseable(t[i].InvoiceDate)
    THEN [i \in 1..Len(t) |-> [t[i] EXCEPT !.InvoiceDate = to_datetime(@)]]
    ELSE t

\* how ignored: a row is dropped when any listed column is null
remove_missing_values_any(t, columns, how) ==
    BoolIndex(t, [i \in 1..Len(t) |-> \A c \in columns : t[i][c] # NaN])

\* DataFrame.dropna(subset=columns, how=how)
remove_missing_values(t, columns, how) ==
    BoolIndex(t, [i \in 1..Len(t) |->
                     IF how = "any"
                     THEN \A c \in columns : t[i][c] # NaN
                     ELSE \E c \in columns : t[i][c] # NaN])

\* removed/original_rows divides two Python ints: ZeroDivisionError on an
\* empty table
remove_missing_values_raises(t) == Len(t) = 0

\* the quantity test written with > instead of >=
remove_invalid_quantities_strict(t, minq) ==
    BoolIndex(t, [i \in 1..Len(t) |-> t[i].Quantity > minq])

remove_invalid_quantities(t, minq) ==
    BoolIndex(t, [i \in 1..Len(t) |-> t[i].Quantity >= minq])

\* the price test without its upper bound
remove_invalid_prices_no_max(t, minp, maxp) ==
    BoolIndex(t, [i \in 1..Len(t) |-> t[i].UnitPrice >= minp])

remove_invalid_prices(t, minp, maxp) ==
    BoolIndex(t, [i \in 1..Len(t) |->
                     t[i].UnitPrice >= minp /\ t[i].UnitPrice <= maxp])

\* DataFrame.drop_duplicates(subset=None): keep the first of equal rows
remove_duplicates(t) ==
    BoolIndex(t, [i \in 1..Len(t) |-> \A j \in 1..(i - 1) : t[j] # t[i]])

\* the columns clean_ecommerce_data requires to be present
required_columns == {"Description"}

\* no exception
NoError == [type |-> "", name |-> ""]

\* the initial values of the variables a specification does not use
NoFeatures ==
    /\ product_metrics = <<>>
    /\ monthly_revenue = <<>>
    /\ country_metrics = <<>>
    /\ invoice_metrics = <<>>
    /\ result = <<>>

NoCall ==
    /\ call = [op |-> ""]
    /\ error = NoError

\* where control goes after a function returns: to the next statement of
\* engineer_all_features, or back to the caller of the function
After(next, returned) == IF call.op = "engineer_all_features" THEN next ELSE returned

NoCleaning ==
    /\ df_clean = <<>>
    /\ calls = <<>>
    /\ run = 1
    /\ first_clean = <<>>

(***************************************************************************)
(* clean_ecommerce_data, one action per step                               *)
(***************************************************************************)
StepOrder ==
    <<"remove_cancelled_orders", "convert_data_types", "remove_missing_values",
      "remove_invalid_quantities", "remove_invalid_prices", "remove_duplicates">>

Call(step, input, out) == Append(calls, [step |-> step, input |-> input, output |-> out])

\* df_clean = step(df_clean)
Step(step, input, out, next) ==
    /\ pc = step
    /\ df_clean' = out
    /\ calls' = Call(step, input, out)
    /\ pc' = next
    /\ UNCHANGED <<df, run, first_clean, customer_metrics, featureVars, callVars>>

RemoveCancelledOrders ==
    Step("remove_cancelled_orders", df_clean,
         remove_cancelled_orders(df_clean, cancelled_prefix),
         "convert_data_types")

ConvertDataTypes ==
    Step("convert_data_types", df_clean, convert_data_types(df_clean),
         "remove_missing_values")

RemoveMissingValues ==
    /\ pc = "remove_missing_values"
    /\ IF remove_missing_values_raises(df_clean)
       THEN /\ pc' = "raised"
            /\ UNCHANGED <<df_clean, calls>>
       ELSE /\ df_clean' = remove_missing_values(df_clean, required_columns, "any")
            /\ calls' = Call("remove_missing_values", df_clean, df_clean')
            /\ pc' = "remove_invalid_quantities"
    /\ UNCHANGED <<df, run, first_clean, customer_metrics, featureVars, callVars>>

RemoveInvalidQuantities ==
    Step("remove_invalid_quantities", df_clean,
         remove_invalid_quantities(df_clean, min_quantity),
         "remove_invalid_prices")

\* the price filter applied to the caller's table instead of the working table
RemoveInvalidPrices_on_df ==
    Step("remove_invalid_prices", df,
         remove_invalid_prices(df, min_price, max_price),
         "remove_duplicates")

RemoveInvalidPrices ==
    Step("remove_invalid_prices", df_clean,
         remove_invalid_prices(df_clean, min_price, max_price),
         "remove_duplicates")

RemoveDuplicates ==
    Step("remove_duplicates", df_clean, remove_duplicates(df_clean), "summary")

\* retention_rate = final_rows / original_rows, then return df_clean
Summary ==
    /\ pc = "summary"
    /\ pc' = IF Len(df) = 0 THEN "raised" ELSE "done"
    /\ UNCHANGED <<df, df_clean, calls, run, first_clean, customer_metrics, featureVars, callVars>>

\* the caller cleans the table it got back: clean_ecommerce_data(clean_ecommerce_data(df))
CleanAgain ==
    /\ pc = "done"
    /\ run = 1
    /\ run' = 2
    /\ first_clean' = df_clean
    /\ df' = df_clean
    /\ df_clean' = df_clean
    /\ calls' = <<>>
    /\ pc' = "remove_cancelled_orders"
    /\ UNCHANGED <<customer_metrics, featureVars, callVars>>

Init ==
    /\ df \in RawTables
    /\ df_clean = df
    /\ pc = "remove_cancelled_orders"
    /\ calls = <<>>
    /\ run = 1
    /\ first_clean = <<>>
    /\ customer_metrics = <<>>
    /\ NoFeatures
    /\ NoCall

Next ==
    \/ RemoveCancelledOrders
    \/ ConvertDataTypes
    \/ RemoveMissingValues
    \/ RemoveInvalidQuantities
    \/ RemoveInvalidPrices
    \/ RemoveDuplicates
    \/ Summary
    \/ CleanAgain

Spec == Init /\ [][Next]_vars

(***************************************************************************)
(* create_rfm_scores                                                       *)
(***************************************************************************)
\* the metrics of the customers a customer table is drawn from; they tie and
\* order differently on each of the three metrics
CustomerProfiles ==
    { [Recency_Days |-> 1,   TotalOrders |-> 5, CustomerLifetimeValue |-> 10000],
      [Recency_Days |-> 10,  TotalOrders |-> 1, CustomerLifetimeValue |-> 500],
      [Recency_Days |-> 10,  TotalOrders |-> 5, CustomerLifetimeValue |-> 2500],
      [Recency_Days |-> 100, TotalOrders |-> 2, CustomerLifetimeValue |-> 10000] }

\* a customer table before scoring: one row per customer id, no score columns
CustomerRow(id, p) ==
    [CustomerID |-> id, Recency_Days |-> p.Recency_Days,
     TotalOrders |-> p.TotalOrders,
     CustomerLifetimeValue |-> p.CustomerLifetimeValue,
     R_Score |-> 0, F_Score |-> 0, M_Score |-> 0, RFM_Score |-> ""]

CustomerTables ==
    { [i \in 1..Len(t) |-> CustomerRow(i, t[i])] :
          t \in TablesOf(CustomerProfiles, MaxCustomers) }

Column(t, c) == [i \in 1..Len(t) |-> t[i][c]]

\* Series.rank(ascending=False): the largest value gets rank 1
rank_descending(values) ==
    [i \in 1..Len(values) |->
        Cardinality({j \in 1..Len(values) :
            values[j] > values[i] \/ (values[j] = values[i] /\ j <= i)})]

\* ties ranked in reverse order of appearance
rank_last(values) ==
    [i \in 1..Len(values) |->
        Cardinality({j \in 1..Len(values) :
            values[j] < values[i] \/ (values[j] = values[i] /\ j >= i)})]

\* Series.rank(method='first'): ranks 1..N in increasing order of value, equal
\* values ranked in their order of appearance
rank_first(values) ==
    [i \in 1..Len(values) |->
        Cardinality({j \in 1..Len(values) :
            values[j] < values[i] \/ (values[j] = values[i] /\ j <= i)})]

\* bins=[0, 0.2, 0.4, 0.6, 0.8, 1.0], held in fifths
bins == <<0, 1, 2, 3, 4, 5>>

\* labels of R_Score, left bin first
R_labels_direct == <<1, 2, 3, 4, 5>>

R_labels == <<5, 4, 3, 2, 1>>

\* labels of F_Score and M_Score
FM_labels == <<1, 2, 3, 4, 5>>

\* the bin computed as int(pct * 5) + 1
cut_floor(rank, n, edges, labels) ==
    LET k == (5 * rank) \div n + 1
    IN  IF k <= Len(labels) THEN labels[k] ELSE k

\* pd.cut(rank / n, bins=edges, labels=labels): right-closed intervals
\* (edges[k], edges[k+1]]; a value in no interval gets no label (0)
cut(rank, n, edges, labels) ==
    LET ids == Cardinality({k \in 1..Len(edges) : edges[k] * n < 5 * rank})
    IN  IF ids = 0 \/ ids = Len(edges) THEN 0 ELSE labels[ids]

\* the bins cut on the value as a fraction of the largest value
scores_by_value(values, labels) ==
    LET largest == CHOOSE x \in {values[i] : i \in 1..Len(values)} :
                       \A i \in 1..Len(values) : values[i] <= x
    IN  [i \in 1..Len(values) |-> cut(values[i], largest, bins, labels)]

\* pd.cut(column.rank(method='first', pct=True), bins, labels)
scores(values, labels) ==
    [i \in 1..Len(values) |-> cut(rank_first(values)[i], Len(values), bins, labels)]

\* .astype(int) raises on a value without a label
astype_int_raises(column) == \E i \in 1..Len(column) : column[i] = 0

SetColumn(t, c, column) == [i \in 1..Len(t) |-> [t[i] EXCEPT ![c] = column[i]]]

ScoreStep(step, metric, labels, next) ==
    /\ pc = step
    /\ LET column == scores(Column(customer_metrics, metric), labels)
       IN  IF astype_int_raises(column)
           THEN /\ pc' = "raised"
                /\ UNCHANGED customer_metrics
           ELSE /\ customer_metrics' = SetColumn(customer_metrics, step, column)
                /\ pc' = next
    /\ UNCHANGED <<df, df_clean, calls, run, first_clean, featureVars, callVars>>

ScoreRecency == ScoreStep("R_Score", "Recency_Days", R_labels, "F_Score")

ScoreFrequency == ScoreStep("F_Score", "TotalOrders", FM_labels, "M_Score")

ScoreMonetary == ScoreStep("M_Score", "CustomerLifetimeValue", FM_labels, "RFM_Score")

\* RFM_Score = str(R_Score) + str(F_Score) + str(M_Score)
ConcatRFM ==
    /\ pc = "RFM_Score"
    /\ customer_metrics' =
           [i \in 1..Len(customer_metrics) |->
               [customer_metrics[i] EXCEPT !.RFM_Score =
                   ToString(customer_metrics[i].R_Score)
                       \o ToString(customer_metrics[i].F_Score)
                       \o ToString(customer_metrics[i].M_Score)]]
    /\ pc' = After("create_customer_segments", "rfm_done")
    /\ UNCHANGED <<df, df_clean, calls, run, first_clean, featureVars, callVars>>

InitRfm ==
    /\ customer_metrics \in CustomerTables
    /\ pc = "R_Score"
    /\ df = <<>>
    /\ df_clean = <<>>
    /\ calls = <<>>
    /\ run = 1
    /\ first_clean = <<>>
    /\ NoFeatures
    /\ NoCall

NextRfm ==
    \/ ScoreRecency
    \/ ScoreFrequency
    \/ ScoreMonetary
    \/ ConcatRFM

SpecRfm == InitRfm /\ [][NextRfm]_vars

(***************************************************************************)
(* Transaction lines of a cleaned table                                    *)
(***************************************************************************)
\* the keys of the lines, each list in the order groupby sorts them
CustomerIDs == <<"13047", "17850">>

InvoiceNos == << <<"5", "3", "6">>, <<"5", "3", "7">>, <<"5", "3", "8">>,
                 <<"5", "3", "9">>, <<"5", "4", "0">> >>

StockCodes == <<"71053", "85123A">>

Descriptions == <<"HEART", "LANTERN">>

Countries == <<"Australia", "EIRE", "France", "Germany", "United Kingdom">>

Line(invoice, stock, description, quantity, price, ts, customer, country) ==
    [InvoiceNo |-> InvoiceNos[invoice], StockCode |-> stock,
     Description |-> description, Quantity |-> quantity,
     InvoiceDate |-> Stamp(ts), UnitPrice |-> price, CustomerID |-> customer,
     Country |-> country]

\* lines that pass every cleaning step: two lines of one invoice, a later
\* invoice of the same customer, a second customer, a line without customer id
CleanLines ==
    { Line(1, "85123A", "LANTERN", 6, 255, 32, "17850", "United Kingdom"),
      Line(1, "71053", "HEART", 2, 339, 32, "17850", "United Kingdom"),
      Line(2, "85123A", "LANTERN", 1, 255, 1126, "17850", "United Kingdom"),
      Line(3, "71053", "HEART", 3, 339, 1234, "13047", "France"),
      Line(5, "71053", "HEART", 1, 100, 44, NaN, "United Kingdom") }

\* the lines of a table handed to one aggregation function: the cleaned
\* lines and a line without description
Lines == CleanLines \cup {Line(4, "85123A", NaN, 4, 255, 1569, "13047", "Germany")}

(***************************************************************************)
(* create_total_price, extract_date_features                               *)
(***************************************************************************)
\* df['TotalPrice'] = df['Quantity'] * df['UnitPrice']
create_total_price(t) ==
    [i \in 1..Len(t) |-> WithColumn(t[i], "TotalPrice", t[i].Quantity * t[i].UnitPrice)]

\* the months the timestamps fall in, with the number of the last day of each
\* (day 1 is 2010-12-01)
Calendar ==
    << [Year |-> 2010, Month |-> 12, first |-> 1,  last |-> 31],
       [Year |-> 2011, Month |-> 1,  first |-> 32, last |-> 62],
       [Year |-> 2011, Month |-> 2,  first |-> 63, last |-> 90],
       [Year |-> 2011, Month |-> 3,  first |-> 91, last |-> 121] >>

MonthOf(ts) ==
    Calendar[CHOOSE m \in 1..Len(Calendar) :
                 Calendar[m].first <= ts \div 24 /\ ts \div 24 <= Calendar[m].last]

\* dt.to_period('M'), held as year * 100 + month
to_period(ts) == MonthOf(ts).Year * 100 + MonthOf(ts).Month

DateFeatures == {"Year", "Month", "Day", "DayOfWeek", "Hour", "YearMonth"}

extract_date_features(t) ==
    [i \in 1..Len(t) |->
        LET date == to_datetime(t[i].InvoiceDate)
            ts == date.ts
        IN  [f \in DOMAIN t[i] \cup DateFeatures |->
                CASE f = "InvoiceDate" -> date
                  [] f = "Year" -> MonthOf(ts).Year
                  [] f = "Month" -> MonthOf(ts).Month
                  [] f = "Day" -> ts \div 24 - MonthOf(ts).first + 1
                  [] f = "DayOfWeek" -> (ts \div 24 + 1) % 7
                  [] f = "Hour" -> ts % 24
                  [] f = "YearMonth" -> to_period(ts)
                  [] OTHER -> t[i][f]]]

(***************************************************************************)
(* groupby and aggregation helpers                                         *)
(***************************************************************************)
\* the keys of groupby(c), sorted; rows whose key is null form no group
GroupKeys(order, t, c) ==
    SelectSeq(order, LAMBDA k : \E i \in 1..Len(t) : t[i][c] = k)

\* only the first row of each group
Group_first(t, c, k) == SubSeq(SelectSeq(t, LAMBDA r : r[c] = k), 1, 1)

Group(t, c, k) == SelectSeq(t, LAMBDA r : r[c] = k)

RECURSIVE SumFrom(_, _)
SumFrom(values, i) == IF i > Len(values) THEN 0 ELSE values[i] + SumFrom(values, i + 1)

sum(values) == SumFrom(values, 1)

\* the number of distinct non-null values
nunique(values, na) == Cardinality({values[i] : i \in 1..Len(values)} \ {na})

min(values) == CHOOSE x \in {values[i] : i \in 1..Len(values)} :
                   \A i \in 1..Len(values) : x <= values[i]

max(values) == CHOOSE x \in {values[i] : i \in 1..Len(values)} :
                   \A i \in 1..Len(values) : x >= values[i]

\* first non-null value of a group, null when there is none
first(values, na) ==
    IF \A i \in 1..Len(values) : values[i] = na THEN na
    ELSE values[CHOOSE i \in 1..Len(values) :
                    values[i] # na /\ \A j \in 1..(i - 1) : values[j] = na]

\* a quotient of two integers, kept exact
Ratio(n, d) == [num |-> n, den |-> d]

\* a float that is not a number
nan == Ratio(0, 0)

\* sort_values(c, ascending=False).reset_index(drop=True): equal values keep
\* their order
sort_values_descending(t, c) ==
    LET pos(i) == Cardinality({j \in 1..Len(t) :
                      t[j][c] > t[i][c] \/ (t[j][c] = t[i][c] /\ j <= i)})
    IN  [k \in 1..Len(t) |-> t[CHOOSE i \in 1..Len(t) : pos(i) = k]]

(***************************************************************************)
(* create_customer_metrics                                                 *)
(***************************************************************************)
None == "None"

\* the timestamps of a column of dates
Stamps(t, c) == [i \in 1..Len(t) |-> t[i][c].ts]

\* the days of a difference given in hours, rounded to the nearest day
timedelta_days_rounded(hours) == (hours + 12) \div 24

\* Timedelta.days of a difference given in hours: the whole days, rounded down
timedelta_days(hours) == hours \div 24

\* df['InvoiceDate'].max() when no date is given, NaT (0) on an empty table
analysis_timestamp(t, analysis_date) ==
    IF analysis_date = None
    THEN (IF Len(t) = 0 THEN 0 ELSE max(Stamps(t, "InvoiceDate")))
    ELSE to_datetime(Text(analysis_date)).ts

\* one key per line that has a customer id, without grouping
customer_keys_per_line(t) == SelectSeq(Column(t, "CustomerID"), LAMBDA k : k # NaN)

\* df.groupby('CustomerID')
customer_keys(t) == GroupKeys(CustomerIDs, t, "CustomerID")

create_customer_metrics(t, analysis_date) ==
    LET keys == customer_keys(t)
        row(k) ==
            LET g == Group(t, "CustomerID", k)
                orders == nunique(Column(g, "InvoiceNo"), <<NaN>>)
                firstPurchase == min(Stamps(g, "InvoiceDate"))
                lastPurchase == max(Stamps(g, "InvoiceDate"))
                tenure == timedelta_days(lastPurchase - firstPurchase)
            IN  [CustomerID |-> k,
                 TotalOrders |-> orders,
                 CustomerLifetimeValue |-> sum(Column(g, "TotalPrice")),
                 AvgBasketValue |-> Ratio(sum(Column(g, "TotalPrice")), Len(g)),
                 TotalItemsPurchased |-> sum(Column(g, "Quantity")),
                 FirstPurchase |-> Stamp(firstPurchase),
                 LastPurchase |-> Stamp(lastPurchase),
                 CustomerTenure_Days |-> tenure,
                 Recency_Days |->
                     timedelta_days(analysis_timestamp(t, analysis_date) - lastPurchase),
                 IsRepeatCustomer |-> IF orders > 1 THEN 1 ELSE 0,
                 PurchaseFrequency |-> Ratio(orders * 30, tenure + 1),
                 R_Score |-> 0, F_Score |-> 0, M_Score |-> 0, RFM_Score |-> ""]
    IN  [i \in 1..Len(keys) |-> row(keys[i])]

(***************************************************************************)
(* create_product_metrics, create_monthly_revenue, create_country_metrics,  *)
(* create_invoice_metrics                                                  *)
(***************************************************************************)
\* the pairs of two sorted key lists, sorted
Pairs(order1, order2) ==
    [k \in 1..(Len(order1) * Len(order2)) |->
        <<order1[(k - 1) \div Len(order2) + 1], order2[((k - 1) % Len(order2)) + 1]>>]

create_product_metrics(t) ==
    LET code(r) == <<r.StockCode, r.Description>>
        keys == SelectSeq(Pairs(StockCodes, Descriptions),
                          LAMBDA k : \E i \in 1..Len(t) : code(t[i]) = k)
        row(k) ==
            LET g == SelectSeq(t, LAMBDA r : code(r) = k)
            IN  [StockCode |-> k[1], Description |-> k[2],
                 TotalRevenue |-> sum(Column(g, "TotalPrice")),
                 UnitsSold |-> sum(Column(g, "Quantity")),
                 OrderCount |-> nunique(Column(g, "InvoiceNo"), <<NaN>>),
                 UniqueCustomers |-> nunique(Column(g, "CustomerID"), NaN),
                 AvgPrice |-> Ratio(sum(Column(g, "TotalPrice")), sum(Column(g, "Quantity")))]
    IN  sort_values_descending([i \in 1..Len(keys) |-> row(keys[i])], "TotalRevenue")

\* the periods in chronological order
Periods == [m \in 1..Len(Calendar) |-> Calendar[m].Year * 100 + Calendar[m].Month]

\* the change of every value relative to the first value
pct_change_from_first(values) ==
    [i \in 1..Len(values) |->
        IF i = 1 THEN nan ELSE Ratio(values[i] - values[1], values[1])]

\* Series.pct_change(): the change relative to the value of the row before,
\* null in the first row
pct_change(values) ==
    [i \in 1..Len(values) |->
        IF i = 1 THEN nan ELSE Ratio(values[i] - values[i - 1], values[i - 1])]

create_monthly_revenue(t) ==
    LET by == [i \in 1..Len(t) |-> WithColumn(t[i], "period", to_period(t[i].InvoiceDate.ts))]
        keys == GroupKeys(Periods, by, "period")
        row(k) ==
            LET g == Group(by, "period", k)
            IN  [YearMonth |-> k,
                 MonthlyRevenue |-> sum(Column(g, "TotalPrice")),
                 MonthlyOrders |-> nunique(Column(g, "InvoiceNo"), <<NaN>>),
                 MonthlyCustomers |-> nunique(Column(g, "CustomerID"), NaN)]
        monthly_agg == [i \in 1..Len(keys) |-> row(keys[i])]
        growth == pct_change(Column(monthly_agg, "MonthlyRevenue"))
    IN  [i \in 1..Len(monthly_agg) |->
            WithColumn(monthly_agg[i], "RevenueGrowth_Pct",
                       Ratio(growth[i].num * 100, growth[i].den))]

\* n / d rounded to an integer, a half going to the even neighbour
round_half_even(n, d) ==
    LET q == n \div d
        r == n % d
    IN  IF 2 * r < d THEN q
        ELSE IF 2 * r > d THEN q + 1
        ELSE IF q % 2 = 0 THEN q ELSE q + 1

\* RevenuePct is held in hundredths of a percent: (x / total * 100).round(2)
create_country_metrics(t) ==
    LET keys == GroupKeys(Countries, t, "Country")
        row(k) ==
            LET g == Group(t, "Country", k)
            IN  [Country |-> k,
                 TotalRevenue |-> sum(Column(g, "TotalPrice")),
                 TotalOrders |-> nunique(Column(g, "InvoiceNo"), <<NaN>>),
                 UniqueCustomers |-> nunique(Column(g, "CustomerID"), NaN)]
        country_agg == [i \in 1..Len(keys) |-> row(keys[i])]
        total_revenue == sum(Column(country_agg, "TotalRevenue"))
    IN  sort_values_descending(
            [i \in 1..Len(country_agg) |->
                WithColumn(country_agg[i], "RevenuePct",
                           round_half_even(country_agg[i].TotalRevenue * 10000,
                                           total_revenue))],
            "TotalRevenue")

create_invoice_metrics(t) ==
    LET keys == GroupKeys(InvoiceNos, t, "InvoiceNo")
        row(k) ==
            LET g == Group(t, "InvoiceNo", k)
            IN  [InvoiceNo |-> k,
                 InvoiceValue |-> sum(Column(g, "TotalPrice")),
                 TotalItems |-> sum(Column(g, "Quantity")),
                 UniqueProducts |-> nunique(Column(g, "StockCode"), NaN),
                 CustomerID |-> first(Column(g, "CustomerID"), NaN),
                 Country |-> first(Column(g, "Country"), NaN),
                 InvoiceDate |-> g[1].InvoiceDate]
    IN  [i \in 1..Len(keys) |-> row(keys[i])]

(***************************************************************************)
(* create_customer_segments                                                *)
(***************************************************************************)
\* the first threshold tested with > instead of >=
classify_rfm_strict(row) ==
    LET score == row.R_Score + row.F_Score + row.M_Score
    IN  IF score > 13 THEN "Champions"
        ELSE IF score >= 10 THEN "Loyal Customers"
        ELSE IF score >= 7 THEN "Potential Loyalists"
        ELSE IF score >= 5 THEN "At Risk"
        ELSE "Lost Customers"

classify_rfm(row) ==
    LET score == row.R_Score + row.F_Score + row.M_Score
    IN  IF score >= 13 THEN "Champions"
        ELSE IF score >= 10 THEN "Loyal Customers"
        ELSE IF score >= 7 THEN "Potential Loyalists"
        ELSE IF score >= 5 THEN "At Risk"
        ELSE "Lost Customers"

\* customer_metrics['CustomerSegment'] = customer_metrics.apply(classify_rfm, axis=1)
create_customer_segments(t) ==
    [i \in 1..Len(t) |-> WithColumn(t[i], "CustomerSegment", classify_rfm(t[i]))]

\* apply(axis=1) on a table without rows: depending on the pandas release it
\* returns an empty column, or a copy of the table, and assigning a table of
\* several columns to one column raises ValueError
create_customer_segments_may_raise(t) == Len(t) = 0

\* the rows of an already scored customer table: every score triple
ScoredRows == [R_Score : 1..5, F_Score : 1..5, M_Score : 1..5]

CreateCustomerSegments ==
    /\ pc = "create_customer_segments"
    /\ \/ /\ create_customer_segments_may_raise(customer_metrics)
          /\ pc' = "raised"
          /\ error' = [type |-> "ValueError", name |-> "CustomerSegment"]
          /\ UNCHANGED customer_metrics
       \/ /\ customer_metrics' = create_customer_segments(customer_metrics)
          /\ pc' = After("create_product_metrics", "segments_done")
          /\ UNCHANGED error
    /\ UNCHANGED <<df, df_clean, calls, run, first_clean, featureVars, call>>

InitSegments ==
    /\ \E n \in 0..MaxScoredCustomers : customer_metrics \in [1..n -> ScoredRows]
    /\ pc = "create_customer_segments"
    /\ df = <<>>
    /\ NoCleaning
    /\ NoFeatures
    /\ NoCall

NextSegments == CreateCustomerSegments

SpecSegments == InitSegments /\ [][NextSegments]_vars

(***************************************************************************)
(* engineer_all_features, one action per statement, and the aggregation    *)
(* functions called on their own                                           *)
(***************************************************************************)
Pipeline == call.op = "engineer_all_features"

aggVars == <<df_clean, calls, run, first_clean, call, error>>

CreateTotalPrice ==
    /\ pc = "create_total_price"
    /\ df' = create_total_price(df)
    /\ pc' = "extract_date_features"
    /\ UNCHANGED <<customer_metrics, featureVars, aggVars>>

ExtractDateFeatures ==
    /\ pc = "extract_date_features"
    /\ df' = extract_date_features(df)
    /\ pc' = "create_customer_metrics"
    /\ UNCHANGED <<customer_metrics, featureVars, aggVars>>

\* engineer_all_features passes no analysis date
CreateCustomerMetrics ==
    /\ pc = "create_customer_metrics"
    /\ customer_metrics' =
           create_customer_metrics(df, IF Pipeline THEN None ELSE call.analysis_date)
    /\ pc' = After("R_Score", "returned")
    /\ UNCHANGED <<df, featureVars, aggVars>>

CreateProductMetrics ==
    /\ pc = "create_product_metrics"
    /\ product_metrics' = create_product_metrics(df)
    /\ pc' = After("create_monthly_revenue", "returned")
    /\ UNCHANGED <<df, customer_metrics, monthly_revenue, country_metrics,
                   invoice_metrics, result, aggVars>>

CreateMonthlyRevenue ==
    /\ pc = "create_monthly_revenue"
    /\ monthly_revenue' = create_monthly_revenue(df)
    /\ pc' = After("create_country_metrics", "returned")
    /\ UNCHANGED <<df, customer_metrics, product_metrics, country_metrics,
                   invoice_metrics, result, aggVars>>

CreateCountryMetrics ==
    /\ pc = "create_country_metrics"
    /\ country_metrics' = create_country_metrics(df)
    /\ pc' = After("create_invoice_metrics", "returned")
    /\ UNCHANGED <<df, customer_metrics, product_metrics, monthly_revenue,
                   invoice_metrics, result, aggVars>>

CreateInvoiceMetrics ==
    /\ pc = "create_invoice_metrics"
    /\ invoice_metrics' = create_invoice_metrics(df)
    /\ pc' = After("return", "returned")
    /\ UNCHANGED <<df, customer_metrics, product_metrics, monthly_revenue,
                   country_metrics, result, aggVars>>

\* return df, customer_metrics, product_metrics, monthly_revenue,
\*        country_metrics, invoice_metrics
Return ==
    /\ pc = "return"
    /\ result' = <<df, customer_metrics, product_metrics, monthly_revenue,
                   country_metrics, invoice_metrics>>
    /\ pc' = "returned"
    /\ UNCHANGED <<df, customer_metrics, product_metrics, monthly_revenue,
                   country_metrics, invoice_metrics, aggVars>>

AggregationOps ==
    {"create_customer_metrics", "create_product_metrics", "create_monthly_revenue",
     "create_country_metrics", "create_invoice_metrics"}

AnalysisDates == {None, "2010-12-02", "2011-03-01"}

\* the tables a single aggregation function is called on: lines with their
\* totals and date fields
EnrichedTables ==
    {extract_date_features(create_total_price(t)) : t \in TablesOf(Lines, MaxLines)}

InitFeatures ==
    /\ \/ /\ call = [op |-> "engineer_all_features", analysis_date |-> None]
          /\ df \in TablesOf(CleanLines, MaxLines)
          /\ pc = "create_total_price"
       \/ /\ call \in [op : AggregationOps, analysis_date : AnalysisDates]
          /\ call.op # "create_customer_metrics" => call.analysis_date = None
          /\ df \in EnrichedTables
          /\ pc = call.op
    /\ error = NoError
    /\ customer_metrics = <<>>
    /\ NoCleaning
    /\ NoFeatures

NextFeatures ==
    \/ CreateTotalPrice
    \/ ExtractDateFeatures
    \/ CreateCustomerMetrics
    \/ ScoreRecency
    \/ ScoreFrequency
    \/ ScoreMonetary
    \/ ConcatRFM
    \/ CreateCustomerSegments
    \/ CreateProductMetrics
    \/ CreateMonthlyRevenue
    \/ CreateCountryMetrics
    \/ CreateInvoiceMetrics
    \/ Return

SpecFeatures == InitFeatures /\ [][NextFeatures]_vars

\* create_country_metrics on tables of up to five countries: lines worth
\* 100.03 in four countries, lines worth 99.88 in two
CountryLines ==
    {Line(k, "85123A", "LANTERN", 1, 10003, 32, "17850", Countries[k]) : k \in 1..4}
        \cup {Line(k, "85123A", "LANTERN", 1, 9988, 32, "17850", Countries[k]) : k \in {1, 5}}

InitCountry ==
    /\ call = [op |-> "create_country_metrics", analysis_date |-> None]
    /\ df \in {create_total_price(t) : t \in TablesOf(CountryLines, MaxCountryLines)}
    /\ pc = "create_country_metrics"
    /\ error = NoError
    /\ customer_metrics = <<>>
    /\ NoCleaning
    /\ NoFeatures

NextCountry == CreateCountryMetrics

SpecCountry == InitCountry /\ [][NextCountry]_vars

(***************************************************************************)
(* The cleaning operations called on their own, with the column they work  *)
(* on given by the caller                                                  *)
(***************************************************************************)
\* the columns of the table, whether or not it has rows
Columns == DOMAIN BaseRow

\* DataFrame.drop_duplicates(subset=subset): keep the first of the rows that
\* agree on the subset
remove_duplicates_subset(t, subset) ==
    BoolIndex(t, [i \in 1..Len(t) |->
                     \A j \in 1..(i - 1) : \E c \in subset : t[j][c] # t[i][c]])

\* df[date_column] = pd.to_datetime(df[date_column]), assigned to the
\* caller's table
filter_by_date_range_converted(t, date_column) ==
    [i \in 1..Len(t) |-> [t[i] EXCEPT ![date_column] = to_datetime(@)]]

\* pd.to_datetime raises on a text that is no date
filter_by_date_range_raises(t, date_column) ==
    \E i \in 1..Len(t) : ~Parseable(t[i][date_column])

filter_by_date_range(t, date_column, start_date, end_date) ==
    LET converted == filter_by_date_range_converted(t, date_column)
    IN  BoolIndex(converted,
                  [i \in 1..Len(t) |->
                      /\ converted[i][date_column].ts >= ParsedDates[start_date]
                      /\ converted[i][date_column].ts <= ParsedDates[end_date]])

\* the column each operation is given when the caller names an existing one
DefaultColumn ==
    [remove_cancelled_orders |-> "InvoiceNo", remove_missing_values |-> "Description",
     remove_invalid_quantities |-> "Quantity", remove_invalid_prices |-> "UnitPrice",
     remove_duplicates |-> "CustomerID", convert_data_types |-> "InvoiceDate",
     filter_by_date_range |-> "InvoiceDate"]

CleanerOps == DOMAIN DefaultColumn

\* the rows of a table handed to one operation: the raw rows, a row without
\* invoice id, a row without description and customer id, and rows of a
\* second customer
OpRows ==
    RawRows \cup
        { [BaseRow EXCEPT !.InvoiceNo = <<NaN>>],
          [BaseRow EXCEPT !.Description = NaN, !.CustomerID = NaN],
          [BaseRow EXCEPT !.CustomerID = "13047"],
          [BaseRow EXCEPT !.CustomerID = "13047", !.Quantity = 1] }

\* the arguments besides the table and the column: the cancellation prefix,
\* the other listed columns and the how of remove_missing_values, whether
\* remove_duplicates is given a subset and its other columns, and a keep
\* argument (None: not given)
DefaultArgs ==
    [prefix |-> cancelled_prefix, also |-> {}, how |-> "any", subset |-> TRUE,
     keep |-> None]

ArgsOf(op) ==
    CASE op = "remove_cancelled_orders" ->
             {[DefaultArgs EXCEPT !.prefix = p] : p \in {cancelled_prefix, <<"5">>}}
      [] op = "remove_missing_values" ->
             {[DefaultArgs EXCEPT !.also = a, !.how = h] :
                  a \in {{}, {"CustomerID"}}, h \in {"any", "all"}}
      [] op = "remove_duplicates" ->
             {[DefaultArgs EXCEPT !.subset = g[1], !.also = g[2], !.keep = k] :
                  g \in {<<FALSE, {}>>, <<TRUE, {}>>, <<TRUE, {"Quantity"}>>},
                  k \in {None, "first", "last"}}
      [] OTHER -> {DefaultArgs}

\* a KeyError that does not say which column was looked up
KeyError_unnamed(column) == [type |-> "KeyError", name |-> ""]

\* df[column] of a column the table does not have: KeyError(column)
KeyError(column) == [type |-> "KeyError", name |-> column]

\* a keyword argument the function does not have
TypeError(keyword) == [type |-> "TypeError", name |-> keyword]

opVars == <<calls, run, first_clean, customer_metrics, product_metrics,
            monthly_revenue, country_metrics, invoice_metrics, df_clean, call>>

\* one call of an operation that looks its column up before anything else:
\* other is the exception it raises on an existing column (NoError if none),
\* out the table it returns, after the caller's table when it has returned
CallOp(op, other, out, after) ==
    /\ pc = "call"
    /\ call.op = op
    /\ IF call.column \notin Columns
       THEN /\ error' = KeyError(call.column)
            /\ pc' = "raised"
            /\ UNCHANGED <<df, result>>
       ELSE IF other # NoError
       THEN /\ error' = other
            /\ pc' = "raised"
            /\ UNCHANGED <<df, result>>
       ELSE /\ result' = <<out>>
            /\ df' = after
            /\ pc' = "returned"
            /\ UNCHANGED error
    /\ UNCHANGED opVars

\* the operators are evaluated only when the column exists
OnColumn(value) == IF call.column \in Columns THEN value ELSE <<>>

RemoveCancelledOrdersOp ==
    CallOp("remove_cancelled_orders", NoError,
           OnColumn(remove_cancelled_orders(df, call.prefix)), df)

RemoveMissingValuesOp ==
    CallOp("remove_missing_values",
           IF remove_missing_values_raises(df)
           THEN [type |-> "ZeroDivisionError", name |-> ""] ELSE NoError,
           OnColumn(remove_missing_values(df, {call.column} \cup call.also, call.how)), df)

RemoveInvalidQuantitiesOp ==
    CallOp("remove_invalid_quantities", NoError,
           OnColumn(remove_invalid_quantities(df, min_quantity)), df)

RemoveInvalidPricesOp ==
    CallOp("remove_invalid_prices", NoError,
           OnColumn(remove_invalid_prices(df, min_price, max_price)), df)

\* remove_duplicates(df, subset=None) has no keep parameter: a call that
\* passes one fails before the body runs
RemoveDuplicatesOp ==
    CallOp("remove_duplicates",
           IF call.keep # None THEN TypeError("keep") ELSE NoError,
           OnColumn(IF ~call.subset THEN remove_duplicates(df)
                    ELSE remove_duplicates_subset(df, {call.column} \cup call.also)),
           df)

FilterByDateRangeOp ==
    CallOp("filter_by_date_range",
           IF call.column \in Columns /\ filter_by_date_range_raises(df, call.column)
           THEN [type |-> "ValueError", name |-> ""] ELSE NoError,
           OnColumn(filter_by_date_range(df, call.column, "2010-12-01", "2010-12-02")),
           OnColumn(filter_by_date_range_converted(df, call.column)))

\* convert_data_types(df, {column: 'datetime64'}): a column that is not in
\* the table is logged and skipped
ConvertDataTypesOp ==
    /\ pc = "call"
    /\ call.op = "convert_data_types"
    /\ result' = <<IF call.column \in Columns THEN convert_data_types(df) ELSE df>>
    /\ pc' = "returned"
    /\ UNCHANGED <<df, error, opVars>>

\* call.df is the table as the caller passes it; the other arguments vary
\* only in calls that name an existing column
InitOps ==
    /\ df \in TablesOf(OpRows, MaxOpRows)
    /\ \E op \in CleanerOps, column \in {"NonExistentColumn"} \cup Columns :
          \E args \in ArgsOf(op) :
              /\ column \in {"NonExistentColumn", DefaultColumn[op]}
              /\ column = "NonExistentColumn" => args = DefaultArgs
              /\ call = [op |-> op, column |-> column, df |-> df,
                         prefix |-> args.prefix, also |-> args.also,
                         how |-> args.how, subset |-> args.subset,
                         keep |-> args.keep]
    /\ pc = "call"
    /\ error = NoError
    /\ customer_metrics = <<>>
    /\ NoCleaning
    /\ NoFeatures

NextOps ==
    \/ RemoveCancelledOrdersOp
    \/ RemoveMissingValuesOp
    \/ RemoveInvalidQuantitiesOp
    \/ RemoveInvalidPricesOp
    \/ RemoveDuplicatesOp
    \/ FilterByDateRangeOp
    \/ ConvertDataTypesOp

SpecOps == InitOps /\ [][NextOps]_vars

(***************************************************************************)
(* handle_outliers(df, column, method, threshold, action), called on its   *)
(* own.  The cells of the column are exact quotients, nan when null.       *)
(***************************************************************************)
MaxOutlierRows == 5

Number(v) == Ratio(v, 1)

\* mean + k * sqrt(variance), the cell a value is clipped to by the zscore cap
Surd(mean, k, variance) == [mean |-> mean, k |-> k, variance |-> variance]

\* threshold: float = 1.5
threshold == Ratio(3, 2)

OutlierValues == {1, 2, 9}

OutlierRows == {[Quantity |-> c] : c \in {Number(v) : v \in OutlierValues} \cup {nan}}

Methods == {"iqr", "zscore", "mad"}

Actions == {"keep", "remove", "cap", "drop"}

\* x < y and x <= y of floats: False when either is nan
lt(x, y) == x.den # 0 /\ y.den # 0 /\ x.num * y.den < y.num * x.den

le(x, y) == x.den # 0 /\ y.den # 0 /\ x.num * y.den <= y.num * x.den

\* Series.dropna() of a numeric column, as the numbers themselves
dropna(values) ==
    LET kept == BoolIndex(values, [i \in 1..Len(values) |-> values[i] # nan])
    IN  [k \in 1..Len(kept) |-> kept[k].num]

sort_values(values) ==
    LET pos(i) == Cardinality({j \in 1..Len(values) :
                      values[j] < values[i] \/ (values[j] = values[i] /\ j <= i)})
    IN  [k \in 1..Len(values) |-> values[CHOOSE i \in 1..Len(values) : pos(i) = k]]

\* Series.quantile(quarters / 4): linear interpolation between the two
\* nearest of the sorted non-null values, nan when there is none
quantile(values, quarters) ==
    LET v == sort_values(dropna(values))
        h == (Len(v) - 1) * quarters
        lo == (h \div 4) + 1
    IN  IF Len(v) = 0 THEN nan
        ELSE IF h % 4 = 0 THEN Ratio(4 * v[lo], 4)
        ELSE Ratio(4 * v[lo] + (h % 4) * (v[lo + 1] - v[lo]), 4)

\* Q1 - threshold * IQR and Q3 + threshold * IQR
iqr_bounds(values) ==
    LET Q1 == quantile(values, 1)
        Q3 == quantile(values, 3)
        IQR == Q3.num - Q1.num
    IN  IF Q1 = nan THEN [lower |-> nan, upper |-> nan]
        ELSE [lower |-> Ratio(threshold.den * Q1.num - threshold.num * IQR,
                              4 * threshold.den),
              upper |-> Ratio(threshold.den * Q3.num + threshold.num * IQR,
                              4 * threshold.den)]

\* Series.clip(lower, upper): a null value stays null, a null bound does not
\* clip
clip(x, lower, upper) ==
    IF lt(x, lower) THEN lower
    ELSE IF lt(upper, x) THEN upper
    ELSE x

\* n, the sum and n^2 times the population variance of the non-null values
Moments(values) ==
    LET v == dropna(values)
        n == Len(v)
        S == sum(v)
    IN  [n |-> n, S |-> S, D |-> n * sum([k \in 1..n |-> v[k] * v[k]]) - S * S]

\* np.abs(stats.zscore(column.dropna())) <= threshold, one entry per non-null
\* value: (x - mean) / std with the population deviation, nan (never <=)
\* when the deviation is 0
zscore_within(values) ==
    LET v == dropna(values)
        m == Moments(values)
    IN  [k \in 1..Len(v) |->
            /\ m.D > 0
            /\ (m.n * v[k] - m.S) * (m.n * v[k] - m.S) * threshold.den * threshold.den
                   <= threshold.num * threshold.num * m.D]

\* the value is further than threshold * std from the mean, on the side of
\* sign, with std the sample deviation: (x - mean)^2 > threshold^2 * D / (n (n - 1))
beyond(x, m, sign) ==
    /\ x # nan
    /\ m.n > 1
    /\ sign * (m.n * x.num - m.S * x.den) > 0
    /\ (m.n * x.num - m.S * x.den) * (m.n * x.num - m.S * x.den) * (m.n - 1)
           * threshold.den * threshold.den
         > threshold.num * threshold.num * m.n * m.D * x.den * x.den

\* clip(mean - threshold * std, mean + threshold * std) with Series.mean()
\* and Series.std(); std is nan for fewer than two values
zscore_cap(values) ==
    LET m == Moments(values)
        variance == Ratio(m.D, m.n * (m.n - 1))
        bound(k) == Surd(Ratio(m.S, m.n), k, variance)
    IN  [i \in 1..Len(values) |->
            IF beyond(values[i], m, -1) THEN bound(Ratio(-threshold.num, threshold.den))
            ELSE IF beyond(values[i], m, 1) THEN bound(threshold)
            ELSE values[i]]

\* the exception handle_outliers raises, NoError if none: a method that is
\* neither iqr nor zscore leaves `outliers` unbound for the log line; the
\* zscore mask has one entry per non-null value and cannot index a table
\* with nulls
handle_outliers_raises(t, column, method, action) ==
    IF method \notin {"iqr", "zscore"}
    THEN [type |-> "UnboundLocalError", name |-> "outliers"]
    ELSE IF /\ method = "zscore"
            /\ action = "remove"
            /\ Len(dropna(Column(t, column))) # Len(t)
    THEN [type |-> "ValueError", name |-> ""]
    ELSE NoError

\* an action that is not remove or cap changes nothing
handle_outliers(t, column, method, action) ==
    LET values == Column(t, column)
        b == iqr_bounds(values)
    IN  CASE method = "iqr" /\ action = "remove" ->
                 BoolIndex(t, [i \in 1..Len(t) |->
                                  le(b.lower, values[i]) /\ le(values[i], b.upper)])
          [] method = "iqr" /\ action = "cap" ->
                 [i \in 1..Len(t) |->
                     [t[i] EXCEPT ![column] = clip(@, b.lower, b.upper)]]
          [] method = "zscore" /\ action = "remove" ->
                 BoolIndex(t, zscore_within(values))
          [] method = "zscore" /\ action = "cap" ->
                 [i \in 1..Len(t) |-> [t[i] EXCEPT ![column] = zscore_cap(values)[i]]]
          [] OTHER -> t

HandleOutliers ==
    /\ pc = "call"
    /\ LET raised == handle_outliers_raises(df, call.column, call.method, call.action)
       IN  IF raised # NoError
           THEN /\ error' = raised
                /\ pc' = "raised"
                /\ UNCHANGED result
           ELSE /\ result' = <<handle_outliers(df, call.column, call.method, call.action)>>
                /\ pc' = "returned"
                /\ UNCHANGED error
    /\ UNCHANGED <<df, opVars>>

InitOutliers ==
    /\ \E n \in 0..MaxOutlierRows : df \in [1..n -> OutlierRows]
    /\ \E method \in Methods, action \in Actions :
          call = [op |-> "handle_outliers", column |-> "Quantity", df |-> df,
                  method |-> method, action |-> action]
    /\ pc = "call"
    /\ error = NoError
    /\ customer_metrics = <<>>
    /\ NoCleaning
    /\ NoFeatures

NextOutliers == HandleOutliers

SpecOutliers == InitOutliers /\ [][NextOutliers]_vars

(***************************************************************************)
(* The row-removing steps of clean_ecommerce_data applied, after the type  *)
(* conversion, in an order the caller chooses                              *)
(***************************************************************************)
MaxOrderRows == 2

Filters == {StepOrder[k] : k \in 1..Len(StepOrder)} \ {"convert_data_types"}

\* the step with the arguments clean_ecommerce_data passes
Filter(step, t) ==
    CASE step = "remove_cancelled_orders" -> remove_cancelled_orders(t, cancelled_prefix)
      [] step = "remove_missing_values" -> remove_missing_values(t, required_columns, "any")
      [] step = "remove_invalid_quantities" -> remove_invalid_quantities(t, min_quantity)
      [] step = "remove_invalid_prices" -> remove_invalid_prices(t, min_price, max_price)
      [] step = "remove_duplicates" -> remove_duplicates(t)

Applied == {calls[k].step : k \in 1..Len(calls)}

\* df_clean = step(df_clean) for a step that has not been applied yet
ApplyFilter ==
    /\ pc = "filters"
    /\ \E step \in Filters \ Applied :
          IF step = "remove_missing_values" /\ remove_missing_values_raises(df_clean)
          THEN /\ pc' = "raised"
               /\ error' = [type |-> "ZeroDivisionError", name |-> ""]
               /\ UNCHANGED <<df_clean, calls>>
          ELSE /\ df_clean' = Filter(step, df_clean)
               /\ calls' = Call(step, df_clean, df_clean')
               /\ pc' = IF Applied \cup {step} = Filters THEN "done" ELSE "filters"
               /\ UNCHANGED error
    /\ UNCHANGED <<df, run, first_clean, customer_metrics, featureVars, call>>

\* df is the table after convert_data_types
InitOrder ==
    /\ \E raw \in TablesOf(RawRows, MaxOrderRows) : df = convert_data_types(raw)
    /\ df_clean = df
    /\ pc = "filters"
    /\ calls = <<>>
    /\ run = 1
    /\ first_clean = <<>>
    /\ customer_metrics = <<>>
    /\ NoFeatures
    /\ NoCall

NextOrder == ApplyFilter

SpecOrder == InitOrder /\ [][NextOrder]_vars

(***************************************************************************)
(* Properties of clean_ecommerce_data                                      *)
(***************************************************************************)
Returned == pc = "done"

Cancelled(r) == startswith(astype_str(r.InvoiceNo), cancelled_prefix)

NoDuplicateRows(t) == \A i, j \in 1..Len(t) : i # j => t[i] # t[j]

\* C1: cleaning never adds rows - no step of clean_ecommerce_data returns more
\* rows than it was given, the working table never has more rows than the
\* caller's table, and neither has the table that is returned.
C1_NeverAddsRows ==
    /\ \A i \in 1..Len(calls) : Len(calls[i].output) <= Len(calls[i].input)
    /\ Len(df_clean) <= Len(df)

C1_Witness ==
    /\ Returned
    /\ Len(calls) = 6
    /\ Len(df_clean) >= 1
    /\ Len(df_clean) < Len(df)

\* C2: the pipeline is idempotent - whenever clean_ecommerce_data has returned
\* a table, cleaning that table again returns the same rows in the same order.
C2_Idempotent ==
    (run = 2 /\ pc \in {"done", "raised"}) => (pc = "done" /\ df_clean = first_clean)

\* C3: in every returned table no invoice id starts with the cancellation
\* prefix, every quantity is at least min_quantity, every unit price lies in
\* [min_price, max_price], and no two rows are equal on all columns.
C3_PostCleanInvariant ==
    Returned =>
        /\ \A i \in 1..Len(df_clean) :
              /\ ~Cancelled(df_clean[i])
              /\ df_clean[i].Quantity >= min_quantity
              /\ df_clean[i].UnitPrice >= min_price
              /\ df_clean[i].UnitPrice <= max_price
        /\ NoDuplicateRows(df_clean)

C3_Witness ==
    /\ Returned
    /\ Len(df_clean) >= 2
    /\ Len(df_clean) < Len(df)

\* C4: in every returned table no row has a null customer id and no row has
\* a null description.
C4_NoNullRequired ==
    Returned =>
        \A i \in 1..Len(df_clean) :
            df_clean[i].CustomerID # NaN /\ df_clean[i].Description # NaN

\* C5: the steps run in the order cancellation removal, type coercion,
\* missing-value removal, quantity filter, price filter, duplicate removal,
\* each at most once; the first step is given the caller's table and every
\* later step exactly the table the preceding step returned; a call that
\* returns has run all six and returns the last step's table.
C5_FixedOrder ==
    /\ Len(calls) <= Len(StepOrder)
    /\ \A i \in 1..Len(calls) : calls[i].step = StepOrder[i]
    /\ Len(calls) >= 1 => calls[1].input = df
    /\ \A i \in 2..Len(calls) : calls[i].input = calls[i - 1].output
    /\ Returned => (Len(calls) = Len(StepOrder) /\ df_clean = calls[Len(calls)].output)

\* a returned call in which three different steps each removed a row
C5_Witness ==
    /\ Returned
    /\ Cardinality({i \in 1..Len(calls) : Len(calls[i].output) < Len(calls[i].input)}) >= 3

\* C6: a row is removed only if it is cancelled, has a null required field,
\* has a quantity below the minimum, has a price outside [min, max], or
\* duplicates an earlier row; a table without such a row is returned with
\* every row kept.  The conditions are judged on the type-coerced rows, which
\* are the rows the filters and the duplicate test are given.
Removable(t, i) ==
    \/ Cancelled(t[i])
    \/ t[i].Description = NaN
    \/ t[i].CustomerID = NaN
    \/ t[i].Quantity < min_quantity
    \/ t[i].UnitPrice < min_price
    \/ t[i].UnitPrice > max_price
    \/ \E j \in 1..(i - 1) : t[j] = t[i]

RECURSIVE IsSubSeqFrom(_, _, _, _)
IsSubSeqFrom(s, i, t, j) ==
    IF i > Len(s) THEN TRUE
    ELSE IF j > Len(t) THEN FALSE
    ELSE IF s[i] = t[j] THEN IsSubSeqFrom(s, i + 1, t, j + 1)
    ELSE IsSubSeqFrom(s, i, t, j + 1)

Coerced(t) ==
    IF \A i \in 1..Len(t) : Parseable(t[i].InvoiceDate)
    THEN [i \in 1..Len(t) |-> [t[i] EXCEPT !.InvoiceDate = Stamp(
             IF @.ts # 0 THEN @.ts ELSE ParsedDates[@.text])]]
    ELSE t

ValidRows(t) == BoolIndex(t, [i \in 1..Len(t) |-> ~Removable(t, i)])

C6_ValidDataPreserved ==
    Returned =>
        /\ IsSubSeqFrom(ValidRows(Coerced(df)), 1, df_clean, 1)
        /\ IsSubSeqFrom(df_clean, 1, Coerced(df), 1)
        /\ (\A i \in 1..Len(df) : ~Removable(Coerced(df), i)) => df_clean = Coerced(df)

\* a returned call on a table of several rows, none of them removable
C6_Witness ==
    /\ Returned
    /\ run = 1
    /\ Len(df) >= 2
    /\ \A i \in 1..Len(df) : ~Removable(Coerced(df), i)
    /\ Len(df_clean) = Len(df)

\* C2, C4 on the code: a call on an emptied table raises, and a row without
\* a customer id survives
C2_SecondCallRaises == run = 2 /\ pc = "raised" /\ first_clean = <<>>

C4_NullCustomerSurvives ==
    Returned /\ \E i \in 1..Len(df_clean) : df_clean[i].CustomerID = NaN

\* C18: a table with zero rows goes through every cleaning operation and
\* through the whole pipeline without an exception, and each operation called
\* on a table with zero rows returns a table with zero rows.
C18_EmptyTableNoError ==
    /\ Len(df_clean) = 0 => pc # "raised"
    /\ \A k \in 1..Len(calls) : Len(calls[k].input) = 0 => Len(calls[k].output) = 0

(***************************************************************************)
(* Properties of create_rfm_scores                                         *)
(***************************************************************************)
Scored == pc = "rfm_done"

NCustomers == Len(customer_metrics)

\* C7: after create_rfm_scores on a non-empty customer table - of any size,
\* with or without tied metric values - every R_Score, F_Score and M_Score is
\* an integer in 1..5, and no such table makes the scoring raise.
C7_ScoresInRange ==
    /\ Scored =>
          \A i \in 1..NCustomers :
              /\ customer_metrics[i].R_Score \in 1..5
              /\ customer_metrics[i].F_Score \in 1..5
              /\ customer_metrics[i].M_Score \in 1..5
    /\ NCustomers >= 1 => pc # "raised"

\* a scored table of fewer than five customers with a tied recency
C7_Witness ==
    /\ Scored
    /\ NCustomers \in 2..4
    /\ \E i, j \in 1..NCustomers :
          i # j /\ customer_metrics[i].Recency_Days = customer_metrics[j].Recency_Days

\* C8: scores are monotone in their metric - a lower recency never has a
\* lower R_Score, a lower order count never a higher F_Score, a lower
\* lifetime value never a higher M_Score.
C8_ScoresMonotone ==
    Scored =>
        \A a, b \in 1..NCustomers :
            /\ customer_metrics[a].Recency_Days < customer_metrics[b].Recency_Days
                  => customer_metrics[a].R_Score >= customer_metrics[b].R_Score
            /\ customer_metrics[a].TotalOrders < customer_metrics[b].TotalOrders
                  => customer_metrics[a].F_Score <= customer_metrics[b].F_Score
            /\ customer_metrics[a].CustomerLifetimeValue < customer_metrics[b].CustomerLifetimeValue
                  => customer_metrics[a].M_Score <= customer_metrics[b].M_Score

\* a scored table with a pair of customers strictly ordered, and strictly
\* scored, on each metric
C8_Witness ==
    /\ Scored
    /\ \E a, b \in 1..NCustomers :
          /\ customer_metrics[a].Recency_Days < customer_metrics[b].Recency_Days
          /\ customer_metrics[a].R_Score > customer_metrics[b].R_Score
    /\ \E a, b \in 1..NCustomers :
          /\ customer_metrics[a].TotalOrders < customer_metrics[b].TotalOrders
          /\ customer_metrics[a].F_Score < customer_metrics[b].F_Score
    /\ \E a, b \in 1..NCustomers :
          /\ customer_metrics[a].CustomerLifetimeValue < customer_metrics[b].CustomerLifetimeValue
          /\ customer_metrics[a].M_Score < customer_metrics[b].M_Score

LowestRecency(i) ==
    \A j \in 1..NCustomers :
        customer_metrics[i].Recency_Days <= customer_metrics[j].Recency_Days

\* C9 as claimed: in every non-empty scored table a customer with the lowest
\* recency has R_Score 5.
C9_LowestRecencyScores5 ==
    Scored =>
        \A i \in 1..NCustomers : LowestRecency(i) => customer_metrics[i].R_Score = 5

\* C9 amended: in every scored table of at least five customers, the customer
\* with the lowest recency - the first of them in table order when several
\* share it - has R_Score 5.
C9_LowestRecencyScores5_FiveCustomers ==
    (Scored /\ NCustomers >= 5) =>
        \A i \in 1..NCustomers :
            (LowestRecency(i) /\ \A j \in 1..(i - 1) : ~LowestRecency(j))
                => customer_metrics[i].R_Score = 5

\* a scored table of five or more customers whose lowest recency belongs to a
\* customer that is not the first row
C9_Witness ==
    /\ Scored
    /\ NCustomers >= 5
    /\ \E i \in 2..NCustomers :
          /\ LowestRecency(i)
          /\ ~LowestRecency(1)
          /\ customer_metrics[i].R_Score = 5

\* C10: ties are broken by first-seen order - of two customers with equal
\* values of a metric the earlier row is ranked lower, so it never has the
\* higher F_Score or M_Score and never the lower R_Score; the scores are
\* thereby fixed by the rows and their order.
C10_TiesByFirstSeen ==
    Scored =>
        \A i, j \in 1..NCustomers :
            i < j =>
                /\ customer_metrics[i].Recency_Days = customer_metrics[j].Recency_Days
                      => customer_metrics[i].R_Score >= customer_metrics[j].R_Score
                /\ customer_metrics[i].TotalOrders = customer_metrics[j].TotalOrders
                      => customer_metrics[i].F_Score <= customer_metrics[j].F_Score
                /\ customer_metrics[i].CustomerLifetimeValue = customer_metrics[j].CustomerLifetimeValue
                      => customer_metrics[i].M_Score <= customer_metrics[j].M_Score

\* a scored table in which the tie-break decides a score on every metric
C10_Witness ==
    /\ Scored
    /\ \E i, j \in 1..NCustomers :
          /\ i < j
          /\ customer_metrics[i].Recency_Days = customer_metrics[j].Recency_Days
          /\ customer_metrics[i].R_Score > customer_metrics[j].R_Score
    /\ \E i, j \in 1..NCustomers :
          /\ i < j
          /\ customer_metrics[i].TotalOrders = customer_metrics[j].TotalOrders
          /\ customer_metrics[i].F_Score < customer_metrics[j].F_Score
    /\ \E i, j \in 1..NCustomers :
          /\ i < j
          /\ customer_metrics[i].CustomerLifetimeValue = customer_metrics[j].CustomerLifetimeValue
          /\ customer_metrics[i].M_Score < customer_metrics[j].M_Score

\* the number of customers with a given score
CountScore(column, k) ==
    Cardinality({i \in 1..NCustomers : customer_metrics[i][column] = k})

\* the number of ranks 1..N whose percentile lies in the k-th fifth
BinSize(k) == (k * NCustomers) \div 5 - ((k - 1) * NCustomers) \div 5

\* C30: in a scored table of N customers, floor(k*N/5) - floor((k-1)*N/5)
\* customers have F_Score k, as many have M_Score k and as many have R_Score
\* 6 - k, for each k in 1..5, whatever the metric values are; a single
\* customer gets R_Score 1, F_Score 5 and M_Score 5.
C30_ScoresByRankOnly ==
    Scored =>
        /\ \A k \in 1..5 :
               /\ CountScore("F_Score", k) = BinSize(k)
               /\ CountScore("M_Score", k) = BinSize(k)
               /\ CountScore("R_Score", 6 - k) = BinSize(k)
        /\ NCustomers = 1 =>
               /\ customer_metrics[1].R_Score = 1
               /\ customer_metrics[1].F_Score = 5
               /\ customer_metrics[1].M_Score = 5

\* a scored table of six customers who all have the same metric values, and
\* yet two of them the top score
C30_Witness ==
    /\ Scored
    /\ NCustomers = 6
    /\ \A i \in 1..NCustomers :
           customer_metrics[i].TotalOrders = customer_metrics[1].TotalOrders
    /\ CountScore("F_Score", 5) = 2

(***************************************************************************)
(* Properties of create_customer_segments                                  *)
(***************************************************************************)
Segmented == pc = "segments_done"

SegmentLabels ==
    {"Champions", "Loyal Customers", "Potential Loyalists", "At Risk", "Lost Customers"}

\* the label the thresholds give to a composite score
SegmentOf(s) ==
    CASE s \in 13..15 -> "Champions"
      [] s \in 10..12 -> "Loyal Customers"
      [] s \in 7..9   -> "Potential Loyalists"
      [] s \in 5..6   -> "At Risk"
      [] s \in 3..4   -> "Lost Customers"

FeatureOrder ==
    <<"create_total_price", "extract_date_features", "create_customer_metrics",
      "R_Score", "F_Score", "M_Score", "RFM_Score", "create_customer_segments",
      "create_product_metrics", "create_monthly_revenue", "create_country_metrics",
      "create_invoice_metrics", "return", "returned">>

Position(p) == CHOOSE k \in 1..Len(FeatureOrder) : FeatureOrder[k] = p

\* the function has been called and has returned its table
Passed(step) ==
    IF Pipeline
    THEN \/ pc = "raised" /\ Position(step) < Position("create_customer_segments")
         \/ pc # "raised" /\ Position(pc) > Position(step)
    ELSE call.op = step /\ pc = "returned"

\* the customer ids of the transaction table
CustomersOf(t) == {t[i].CustomerID : i \in 1..Len(t)} \ {NaN}

LinesOf(t, id) == {i \in 1..Len(t) : t[i].CustomerID = id}

\* C12: the customer metrics table has as many rows as the transaction table
\* has distinct customer ids, and no customer id is in two of its rows.
C12_OneRowPerCustomer ==
    Passed("create_customer_metrics") =>
        /\ Len(customer_metrics) = Cardinality(CustomersOf(df))
        /\ \A i, j \in 1..Len(customer_metrics) :
               customer_metrics[i].CustomerID = customer_metrics[j].CustomerID => i = j
        /\ {customer_metrics[i].CustomerID : i \in 1..Len(customer_metrics)} = CustomersOf(df)

\* engineer_all_features has returned the customer table of three lines of
\* two customers
C12_Witness ==
    /\ Pipeline
    /\ pc = "returned"
    /\ Len(df) = 3
    /\ Len(customer_metrics) = 2

\* the timestamp recency is counted from
AnalysisTimestamp ==
    IF Pipeline \/ call.analysis_date = None
    THEN CHOOSE x \in {df[i].InvoiceDate.ts : i \in 1..Len(df)} :
             \A i \in 1..Len(df) : df[i].InvoiceDate.ts <= x
    ELSE ParsedDates[call.analysis_date]

\* d is the number of whole days in a difference of h hours
WholeDays(d, h) == 24 * d <= h /\ h < 24 * (d + 1)

\* C16: for every customer, TotalOrders is the number of distinct invoices,
\* tenure the whole days from first to last purchase, recency the whole days
\* from the last purchase to the analysis date (the latest timestamp of the
\* table when none is given), IsRepeatCustomer is 1 exactly when TotalOrders
\* > 1, and PurchaseFrequency * (tenure + 1) = 30 * TotalOrders.
C16_CustomerMetricValues ==
    Passed("create_customer_metrics") =>
        \A k \in 1..Len(customer_metrics) :
            LET c == customer_metrics[k]
                lines == LinesOf(df, c.CustomerID)
                times == {df[i].InvoiceDate.ts : i \in lines}
                firstTime == CHOOSE x \in times : \A y \in times : x <= y
                lastTime == CHOOSE x \in times : \A y \in times : x >= y
            IN  /\ c.TotalOrders = Cardinality({df[i].InvoiceNo : i \in lines})
                /\ WholeDays(c.CustomerTenure_Days, lastTime - firstTime)
                /\ WholeDays(c.Recency_Days, AnalysisTimestamp - lastTime)
                /\ c.IsRepeatCustomer \in {0, 1}
                /\ c.IsRepeatCustomer = 1 <=> c.TotalOrders > 1
                /\ c.PurchaseFrequency.den # 0
                /\ c.PurchaseFrequency.num * (c.CustomerTenure_Days + 1)
                       = 30 * c.TotalOrders * c.PurchaseFrequency.den

\* create_customer_metrics called with an analysis date has returned a repeat
\* customer whose purchases are 45 days and 14 hours apart
C16_Witness ==
    /\ call.op = "create_customer_metrics"
    /\ call.analysis_date = "2011-03-01"
    /\ pc = "returned"
    /\ \E k \in 1..Len(customer_metrics) :
          /\ customer_metrics[k].TotalOrders = 2
          /\ customer_metrics[k].CustomerTenure_Days = 45
          /\ customer_metrics[k].LastPurchase.ts - customer_metrics[k].FirstPurchase.ts = 1094
          /\ customer_metrics[k].Recency_Days > 0

\* C14: the monthly revenue rows are in chronological order of period, the
\* growth of the first period is null, and the growth of every later period
\* is (its revenue - the revenue of the period before it) / that revenue * 100.
C14_MonthOverMonthGrowth ==
    Passed("create_monthly_revenue") =>
        \A i \in 1..Len(monthly_revenue) :
            LET row == monthly_revenue[i]
            IN  IF i = 1 THEN row.RevenueGrowth_Pct = nan
                ELSE LET before == monthly_revenue[i - 1]
                     IN  /\ before.YearMonth < row.YearMonth
                         /\ row.RevenueGrowth_Pct.den # 0
                         /\ row.RevenueGrowth_Pct.num * before.MonthlyRevenue
                                = 100 * (row.MonthlyRevenue - before.MonthlyRevenue)
                                      * row.RevenueGrowth_Pct.den

\* a monthly table of three periods with a fall and then a rise
C14_Witness ==
    /\ Passed("create_monthly_revenue")
    /\ Len(monthly_revenue) = 3
    /\ monthly_revenue[2].RevenueGrowth_Pct.num < 0
    /\ monthly_revenue[3].RevenueGrowth_Pct.num > 0

\* the tolerance of the revenue shares, in hundredths of a percent
Tolerance == 1

\* C13: on a non-empty table with positive total revenue the revenue shares
\* of the countries sum to 100 within 0.01.
C13_SharesSumTo100 ==
    (Passed("create_country_metrics") /\ Len(df) > 0
         /\ sum(Column(df, "TotalPrice")) > 0) =>
        LET total == sum(Column(country_metrics, "RevenuePct"))
        IN  10000 - Tolerance <= total /\ total <= 10000 + Tolerance

\* the (product id, description) pairs of the transaction table
ProductsOf(t) == {<<t[i].StockCode, t[i].Description>> : i \in 1..Len(t)}

\* C15: the product metrics table has one row per distinct (product id,
\* description) pair of the table, a null description included, with the
\* pair's sums of line totals and quantities and its numbers of distinct
\* invoices and customers, ordered by TotalRevenue non-increasing.
C15_OneRowPerProduct ==
    Passed("create_product_metrics") =>
        /\ Len(product_metrics) = Cardinality(ProductsOf(df))
        /\ \A p \in ProductsOf(df) :
               \E k \in 1..Len(product_metrics) :
                   LET lines == SelectSeq(df, LAMBDA r : <<r.StockCode, r.Description>> = p)
                       row == product_metrics[k]
                   IN  /\ <<row.StockCode, row.Description>> = p
                       /\ row.TotalRevenue = sum(Column(lines, "TotalPrice"))
                       /\ row.UnitsSold = sum(Column(lines, "Quantity"))
                       /\ row.OrderCount =
                              Cardinality({lines[i].InvoiceNo : i \in 1..Len(lines)})
                       /\ row.UniqueCustomers =
                              Cardinality({lines[i].CustomerID : i \in 1..Len(lines)} \ {NaN})
        /\ \A k \in 2..Len(product_metrics) :
               product_metrics[k - 1].TotalRevenue >= product_metrics[k].TotalRevenue

\* C17: engineer_all_features returns six tables in the order customer
\* metrics, customer segments, product metrics, monthly revenue, country
\* metrics, invoice metrics, each computed from the one enriched table, and
\* the first two have the same number of rows.
C17_SixTablesInOrder ==
    (Pipeline /\ pc = "returned") =>
        /\ Len(result) = 6
        /\ \A i \in 1..Len(result[1]) : "TotalOrders" \in DOMAIN result[1][i]
        /\ Len(result[1]) = Len(result[2])
        /\ \A i \in 1..Len(result[2]) : "CustomerSegment" \in DOMAIN result[2][i]
        /\ result[3] = create_product_metrics(df)
        /\ result[4] = create_monthly_revenue(df)
        /\ result[5] = create_country_metrics(df)
        /\ result[6] = create_invoice_metrics(df)

\* C19: engineer_all_features on a table with zero rows raises nothing and
\* returns six tables with zero rows.  Whether the segment step raises on the
\* empty customer table depends on the pandas release, so both outcomes are
\* behaviours of the model and the formula is not decided by it.
C19_EmptyGivesSixEmptyTables ==
    (Pipeline /\ Len(df) = 0) =>
        /\ pc # "raised"
        /\ pc = "returned" =>
               /\ Len(result) = 6
               /\ \A k \in 1..6 : Len(result[k]) = 0

\* no line of the table lacks a key the aggregations group by
NoNullKey(t) ==
    \A i \in 1..Len(t) :
        /\ t[i].CustomerID # NaN
        /\ t[i].Description # NaN
        /\ t[i].StockCode # NaN
        /\ t[i].Country # NaN
        /\ t[i].InvoiceNo # <<NaN>>

\* C29: when no line has a null grouping key, the customers' lifetime
\* values, the products' revenues, the countries' revenues and the invoices'
\* values each add up to the sum of the line totals of the table.
C29_RevenueConserved ==
    LET Conserved(step, table, column) ==
            (Passed(step) /\ NoNullKey(df)) =>
                sum(Column(table, column)) = sum(Column(df, "TotalPrice"))
    IN  /\ Conserved("create_customer_metrics", customer_metrics, "CustomerLifetimeValue")
        /\ Conserved("create_product_metrics", product_metrics, "TotalRevenue")
        /\ Conserved("create_country_metrics", country_metrics, "TotalRevenue")
        /\ Conserved("create_invoice_metrics", invoice_metrics, "InvoiceValue")

\* engineer_all_features has returned the tables of three lines without null
\* keys, which fall into fewer groups than lines
C29_Witness ==
    /\ Pipeline
    /\ pc = "returned"
    /\ Len(df) = 3
    /\ NoNullKey(df)
    /\ Len(customer_metrics) = 2
    /\ Len(invoice_metrics) = 2
    /\ Len(country_metrics) = 2

(***************************************************************************)
(* Properties of the cleaning operations called on their own               *)
(***************************************************************************)
MissingColumn == call.column \notin Columns

RaisedLookup ==
    /\ pc = "raised"
    /\ error.type = "KeyError"
    /\ error.name = call.column
    /\ result = <<>>

Called(op) == call.op = op /\ call.column \in Columns

\* out is made of the rows of t at the positions in S, in the order of t
RowsAt(t, S, out) ==
    /\ Len(out) = Cardinality(S)
    /\ \E f \in [1..Len(out) -> S] :
          /\ \A j, k \in 1..Len(out) : j < k => f[j] < f[k]
          /\ \A k \in 1..Len(out) : out[k] = t[f[k]]

\* the invoice id of the row, taken as text, begins with the prefix
HasPrefix(row, prefix) ==
    LET text == astype_str(row.InvoiceNo)
    IN  /\ Len(prefix) <= Len(text)
        /\ \A k \in 1..Len(prefix) : text[k] = prefix[k]

\* C24: remove_cancelled_orders returns exactly the input rows whose invoice
\* id, taken as text, does not start with the given prefix, in their original
\* order; when no invoice id starts with the prefix the result equals the
\* input.
C24_KeepsUnprefixedRows ==
    (Called("remove_cancelled_orders") /\ pc # "call") =>
        /\ pc = "returned"
        /\ RowsAt(call.df, {i \in 1..Len(call.df) : ~HasPrefix(call.df[i], call.prefix)},
                  result[1])
        /\ (\A i \in 1..Len(call.df) : ~HasPrefix(call.df[i], call.prefix))
               => result[1] = call.df

\* remove_cancelled_orders with the prefix "5" has kept, of two rows, the
\* cancelled invoice, whose id holds a 5 but does not begin with it
C24_Witness ==
    /\ Called("remove_cancelled_orders")
    /\ pc = "returned"
    /\ call.prefix = <<"5">>
    /\ Len(call.df) = 2
    /\ call.df[1].InvoiceNo # CancelledId
    /\ result[1] = <<[BaseRow EXCEPT !.InvoiceNo = CancelledId]>>

\* the columns remove_missing_values is given
Listed == {call.column} \cup call.also

\* the rows the how of the call drops
Dropped(t) ==
    {i \in 1..Len(t) :
        IF call.how = "any" THEN \E c \in Listed : t[i][c] = NaN
        ELSE \A c \in Listed : t[i][c] = NaN}

DropsByHow ==
    /\ pc = "returned"
    /\ RowsAt(call.df, (1..Len(call.df)) \ Dropped(call.df), result[1])

Subset == IF call.subset THEN {call.column} \cup call.also ELSE Columns

AgreeOn(r1, r2, columns) == \A c \in columns : r1[c] = r2[c]

\* the positions of the occurrences the keep of the call retains
Occurrences(t) ==
    {i \in 1..Len(t) :
        IF call.keep = "last"
        THEN \A j \in (i + 1)..Len(t) : ~AgreeOn(t[i], t[j], Subset)
        ELSE \A j \in 1..(i - 1) : ~AgreeOn(t[i], t[j], Subset)}

\* C26: remove_duplicates returns one row per distinct combination of values
\* of the subset columns (all columns by default), keeping the first
\* occurrence by default and the last occurrence when configured to keep
\* last; no two rows of the result agree on the subset.
C26_OnePerCombination ==
    (Called("remove_duplicates") /\ pc # "call") =>
        /\ pc = "returned"
        /\ RowsAt(call.df, Occurrences(call.df), result[1])
        /\ \A j, k \in 1..Len(result[1]) :
              j # k => ~AgreeOn(result[1][j], result[1][k], Subset)

\* the null timestamp
NaT == [text |-> "NaT", ts |-> 0]

\* C22: on a conversion failure convert_data_types either raises or returns
\* the table with the unconvertible values of the column set to null: the same
\* rows, the convertible values converted, no other column changed.
C22_RaisesOrCoerces ==
    (/\ Called("convert_data_types")
     /\ pc # "call"
     /\ \E i \in 1..Len(call.df) : ~Parseable(call.df[i].InvoiceDate)) =>
        \/ pc = "raised" /\ result = <<>>
        \/ /\ pc = "returned"
           /\ Len(result[1]) = Len(call.df)
           /\ \A i \in 1..Len(call.df) :
                 result[1][i] =
                     [call.df[i] EXCEPT !.InvoiceDate =
                         IF Parseable(@) THEN to_datetime(@) ELSE NaT]

\* C23: no cleaning operation mutates the table passed by the caller: after
\* the call the caller's table has the same rows, columns, values and column
\* types as before the call.
C23_CallerTableUnchanged ==
    pc # "call" => df = call.df

(***************************************************************************)
(* Properties of handle_outliers                                           *)
(***************************************************************************)
KnownMethod == call.method \in {"iqr", "zscore"}

KnownAction == call.action \in {"keep", "remove", "cap"}

\* C21: handle_outliers rejects an unknown method or an unknown action before
\* any computation begins: it raises and returns no table, and never silently
\* ignores the value and returns the input.
C21_RejectsUnknown ==
    (pc # "call" /\ ~(KnownMethod /\ KnownAction)) =>
        pc = "raised" /\ result = <<>>

\* the cell lies within the bounds of the method: the IQR bounds, or, for
\* zscore, at most threshold deviations from the mean, with the deviation the
\* action of the call uses (population for remove, sample for cap); a cell
\* clipped to a bound lies within
WithinBounds(cell, values) ==
    LET b == iqr_bounds(values)
        m == Moments(values)
        d == m.n * cell.num - m.S * cell.den
    IN  IF call.method = "iqr"
        THEN le(b.lower, cell) /\ le(cell, b.upper)
        ELSE \/ "variance" \in DOMAIN cell
             \/ /\ cell # nan
                /\ IF call.action = "remove"
                   THEN d * d * threshold.den * threshold.den
                            <= threshold.num * threshold.num * m.D * cell.den * cell.den
                   ELSE d * d * (m.n - 1) * threshold.den * threshold.den
                            <= threshold.num * threshold.num * m.n * m.D * cell.den * cell.den

\* C27: for both bound methods, handle_outliers with policy keep returns a
\* table equal to its input; with policy cap it keeps every row and leaves
\* every value of the column within [lower bound, upper bound]; with policy
\* remove it returns exactly the input rows whose value lies within
\* [lower bound, upper bound].
C27_PolicyApplied ==
    (pc # "call" /\ KnownMethod /\ KnownAction) =>
        LET values == Column(call.df, call.column)
        IN  /\ pc = "returned"
            /\ call.action = "keep" => result[1] = call.df
            /\ call.action = "cap" =>
                  /\ Len(result[1]) = Len(call.df)
                  /\ \A i \in 1..Len(call.df) :
                        result[1][i][call.column] # nan
                            => WithinBounds(result[1][i][call.column], values)
            /\ call.action = "remove" =>
                  RowsAt(call.df,
                         {i \in 1..Len(call.df) : WithinBounds(values[i], values)},
                         result[1])

(***************************************************************************)
(* Properties of the order of the row-removing steps                       *)
(***************************************************************************)
\* the row passes the four row-wise tests of the pipeline
PassesFilters(r) ==
    /\ ~HasPrefix(r, cancelled_prefix)
    /\ \A c \in required_columns : r[c] # NaN
    /\ r.Quantity >= min_quantity
    /\ r.UnitPrice >= min_price
    /\ r.UnitPrice <= max_price

\* the first occurrences of the rows that pass
Survivors(t) ==
    {i \in 1..Len(t) : PassesFilters(t[i]) /\ \A j \in 1..(i - 1) : t[j] # t[i]}

\* C28: the result does not depend on the order of the row-removing steps:
\* applying cancellation removal, missing-value removal, quantity filter, price
\* filter and duplicate removal in any permutation, after type coercion, yields
\* the same rows in the same relative order.
C28_OrderIndependent ==
    pc # "filters" =>
        /\ pc = "done"
        /\ RowsAt(df, Survivors(df), df_clean)

====
